---- MODULE Spec2Model ----
(***************************************************************************)
(* A model of app_ecb.py, the ECB Data Portal Explorer: the key builder    *)
(* (build_series_keys_from_selection), the per-series fetch and its label  *)
(* (fetch_series_csv), the batch fetch (fetch_many), the structure         *)
(* resolver (fetch_dsd) and the part of the Streamlit script that builds   *)
(* the keys, merges the pasted keys and fetches (lines 284-308).           *)
(*                                                                         *)
(* Text is modelled as a sequence of one-character strings, so that        *)
(* joining with "." and splitting on "." are computed, not assumed.        *)
(*                                                                         *)
(* Under Spec the script is run by two browser sessions, each in a thread  *)
(* of its own: there every variable of the script (pc, SELECTED, ...,      *)
(* rerun_req) is a function of the session, while the st.cache_data memos  *)
(* are shared.  The other specifications follow one call of one function.  *)
(***************************************************************************)
EXTENDS Integers, Sequences, FiniteSets, TLC

VARIABLES
    pc,            \* position of the running operation
    dim_ids,       \* ordered dimension ids handed to the key builder
    SELECTED,      \* the selection: dimension id -> list of codes
    manual_keys,   \* pasted keys (line 280)
    fetch_now,     \* the fetch button (line 301)
    series_keys,   \* the key list of the run (line 284)
    err,           \* the capacity error was raised and shown (line 289)
    built,         \* history: the keys the key builder returned in this run
    WIDE,          \* the Wide Table of the run (lines 303-306)
    warnings,      \* the st.warning calls of the run
    requests,      \* the series-data requests of the run, in order
    crashed,       \* an uncaught exception ended the run
    fsc_cache,     \* st.cache_data of fetch_series_csv (line 195)
    fm_cache,      \* st.cache_data of fetch_many (line 215)
    first_result,  \* history: key list -> the table its first completed call returned
    last_call,     \* history: how the run's fetch_many call went
    failed,        \* history: the keys whose fetch raised in the run's fetch_many call
    runs,          \* number of script runs started or asked for so far
    key_idx,       \* the key the loop of line 218 is at
    frames,        \* the frames list of fetch_many (line 217)
    rerun_req,     \* a rerun was asked for while the script runs
    resp,          \* the response handed to one fetch_series_csv call
    frame_out,     \* the outcome of that call
    dsd_ref,       \* (agency, id, version) returned by get_dsd_ref (line 100)
    candidates,    \* the structure lookup paths (lines 101-104)
    cand_idx,      \* the candidate the loop of line 107 is at
    dsd_log,       \* the datastructure requests made, with their status
    root,          \* the structure accepted (line 111), if any
    dim_idx,       \* the dimension the loop of line 116 is at
    cl_paths,      \* the code list lookup paths of that dimension (lines 149-152)
    cl_idx,        \* the path the loop of line 153 is at
    cl_log,        \* the codelist requests made, with their dimension and status
    dsd_dims,      \* the dimensions collected so far (line 171)
    raised_in      \* where an exception left fetch_dsd, if one did

keyVars == <<dim_ids, SELECTED, manual_keys, fetch_now, series_keys, err>>

appVars == <<built, WIDE, warnings, requests, crashed, fsc_cache, fm_cache,
             first_result, last_call, failed, runs, key_idx, frames, rerun_req>>

lblVars == <<resp, frame_out>>

dsdVars == <<dsd_ref, candidates, cand_idx, dsd_log, root, dim_idx, cl_paths, cl_idx,
             cl_log, dsd_dims, raised_in>>

vars == <<pc, keyVars, appVars, lblVars, dsdVars>>

----------------------------------------------------------------------------
(* Values of the variables an operation does not use *)

EmptyTable == [cols |-> <<>>, index |-> <<>>]

NoFrame == [raised |-> FALSE, error |-> "", label |-> "", key |-> <<>>, index |-> <<>>]

NoResponse == [status |-> 0, cols |-> {}, rows |-> <<>>]

AppUnused ==
    /\ built = <<>>
    /\ WIDE = EmptyTable
    /\ warnings = <<>>
    /\ requests = <<>>
    /\ crashed = FALSE
    /\ fsc_cache = <<>>
    /\ fm_cache = <<>>
    /\ first_result = <<>>
    /\ last_call = "none"
    /\ failed = <<>>
    /\ runs = 0
    /\ key_idx = 1
    /\ frames = <<>>
    /\ rerun_req = FALSE

LabelUnused ==
    /\ resp = NoResponse
    /\ frame_out = NoFrame

None == "None"

NoRoot == [found |-> FALSE, dimensions |-> <<>>]

DsdUnused ==
    /\ dsd_ref = <<None, None, None>>
    /\ candidates = <<>>
    /\ cand_idx = 1
    /\ dsd_log = <<>>
    /\ root = NoRoot
    /\ dim_idx = 1
    /\ cl_paths = <<>>
    /\ cl_idx = 1
    /\ cl_log = <<>>
    /\ dsd_dims = <<>>
    /\ raised_in = "nowhere"

----------------------------------------------------------------------------
(* Text helpers *)

Dot == "."

Max(a, b) == IF a >= b THEN a ELSE b

RECURSIVE JoinNonEmpty(_, _)
\* a join that drops the empty parts
JoinNonEmpty(sep, parts) ==
    IF Len(parts) = 0 THEN <<>>
    ELSE IF Len(parts[1]) = 0 THEN JoinNonEmpty(sep, Tail(parts))
    ELSE IF Len(parts) = 1 THEN parts[1]
    ELSE LET rest == JoinNonEmpty(sep, Tail(parts))
         IN  IF Len(rest) = 0 THEN parts[1] ELSE parts[1] \o sep \o rest

RECURSIVE JoinWith(_, _)
\* sep.join(parts): parts are texts, sep a text
JoinWith(sep, parts) ==
    IF Len(parts) = 0 THEN <<>>
    ELSE IF Len(parts) = 1 THEN parts[1]
    ELSE parts[1] \o sep \o JoinWith(sep, Tail(parts))

RECURSIVE SplitOn(_, _, _)
\* s.split(c): cur is the segment being read
SplitOn(c, s, cur) ==
    IF Len(s) = 0 THEN <<cur>>
    ELSE IF s[1] = c THEN <<cur>> \o SplitOn(c, Tail(s), <<>>)
    ELSE SplitOn(c, Tail(s), Append(cur, s[1]))

Segments(key) == SplitOn(Dot, key, <<>>)

RECURSIVE StrOf(_)
\* the text as one string
StrOf(s) == IF Len(s) = 0 THEN "" ELSE s[1] \o StrOf(Tail(s))

Digit(n) == <<"0", "1", "2", "3", "4", "5", "6", "7", "8", "9">>[n + 1]

----------------------------------------------------------------------------
(* build_series_keys_from_selection, lines 178-193 *)

MaxKeys == 5000

\* selected.get(dim) or [""]  (line 183)
OrWildcard(selected, dim) ==
    IF dim \in DOMAIN selected /\ Len(selected[dim]) > 0
    THEN selected[dim]
    ELSE << <<>> >>

OrderedLists(dims, selected) ==
    [i \in 1..Len(dims) |-> OrWildcard(selected, dims[i])]

RECURSIVE LimitExceededAt(_, _, _)
\* the running product with the ceiling itself rejected
LimitExceededAt(lists, i, total) ==
    IF i > Len(lists) THEN FALSE
    ELSE LET t == total * Max(1, Len(lists[i]))
         IN  IF t >= MaxKeys THEN TRUE ELSE LimitExceededAt(lists, i + 1, t)

RECURSIVE LimitExceeded(_, _, _)
\* the running product of lines 185-189: TRUE when the RuntimeError is raised
LimitExceeded(lists, i, total) ==
    IF i > Len(lists) THEN FALSE
    ELSE LET t == total * Max(1, Len(lists[i]))
         IN  IF t > MaxKeys THEN TRUE ELSE LimitExceeded(lists, i + 1, t)

RECURSIVE ProductFirstFastest(_)
\* a product in which the first list varies fastest and leads the combination
ProductFirstFastest(lists) ==
    IF Len(lists) = 0 THEN << <<>> >>
    ELSE LET prev == ProductFirstFastest(SubSeq(lists, 1, Len(lists) - 1))
             pool == lists[Len(lists)]
             n    == Len(pool)
         IN  [i \in 1..(Len(prev) * n) |->
                 <<pool[((i - 1) % n) + 1]>> \o prev[((i - 1) \div n) + 1]]

RECURSIVE Product(_)
\* itertools.product(*lists): the last list varies fastest
Product(lists) ==
    IF Len(lists) = 0 THEN << <<>> >>
    ELSE LET prev == Product(SubSeq(lists, 1, Len(lists) - 1))
             pool == lists[Len(lists)]
             n    == Len(pool)
         IN  [i \in 1..(Len(prev) * n) |->
                 Append(prev[((i - 1) \div n) + 1], pool[((i - 1) % n) + 1])]

\* the call's outcome: raised, or the list of keys.  The function is memoized
\* (line 177); as it reads nothing but its arguments the memo changes no result.
build_series_keys_from_selection(dims, selected) ==
    LET lists == OrderedLists(dims, selected)
    IN  IF LimitExceeded(lists, 1, 1)
        THEN [raised |-> TRUE, keys |-> <<>>]
        ELSE LET combos == Product(lists)
             IN  [raised |-> FALSE,
                  keys |-> [i \in 1..Len(combos) |-> JoinWith(<<Dot>>, combos[i])]]

----------------------------------------------------------------------------
(* Inputs of the key builder *)

MaxDims == 3

DimNames == <<"FREQ", "CURRENCY", "CURRENCY_DENOM", "EXR_TYPE", "EXR_SUFFIX">>

\* a generated code: C followed by the three digits of n
CodeOf(n) == <<"C", Digit((n \div 100) % 10), Digit((n \div 10) % 10), Digit(n % 10)>>

CodeList(n) == [i \in 1..n |-> CodeOf(i)]

SmallLists ==
    { <<>>, << <<"D">> >>, << <<"A", ".", "B">>, <<"U", "S", "D">> >> }

BigLists == { CodeList(50), CodeList(100), CodeList(101) }

KeyDimLists == { SubSeq(DimNames, 1, n) : n \in 0..MaxDims }

DimSet(dims) == { dims[i] : i \in 1..Len(dims) }

\* every selection over a subset of the dimensions: a missing dimension is unselected
Selections(dims, lists) ==
    UNION { [sub -> lists] : sub \in SUBSET DimSet(dims) }

InitKeys ==
    /\ pc = "call"
    /\ dim_ids \in KeyDimLists
    /\ SELECTED \in Selections(dim_ids, SmallLists \cup BigLists)
    /\ manual_keys = <<>>
    /\ fetch_now = FALSE
    /\ series_keys = <<>>
    /\ err = FALSE
    /\ AppUnused
    /\ LabelUnused
    /\ DsdUnused

\* one call of the key builder on the drawn inputs
CallBuild ==
    /\ pc = "call"
    /\ LET r == build_series_keys_from_selection(dim_ids, SELECTED)
       IN  /\ series_keys' = r.keys
           /\ err' = r.raised
    /\ pc' = "returned"
    /\ UNCHANGED <<dim_ids, SELECTED, manual_keys, fetch_now>>
    /\ UNCHANGED <<appVars, lblVars, dsdVars>>

SpecKeys == InitKeys /\ [][CallBuild]_vars

----------------------------------------------------------------------------
(* Properties of the key builder, checked under SpecKeys *)

Unselected(selected, dim) ==
    dim \notin DOMAIN selected \/ Len(selected[dim]) = 0

RECURSIVE SizeProduct(_, _)
\* the product over the dimensions of max(1, |S[d]|)
SizeProduct(dims, selected) ==
    IF Len(dims) = 0 THEN 1
    ELSE (IF Unselected(selected, dims[1]) THEN 1 ELSE Len(selected[dims[1]]))
         * SizeProduct(Tail(dims), selected)

HasDot(code) == \E i \in 1..Len(code) : code[i] = Dot

NoDotCodes(selected) ==
    \A d \in DOMAIN selected : \A i \in 1..Len(selected[d]) : ~HasDot(selected[d][i])

CodesOf(selected, dim) == { selected[dim][i] : i \in 1..Len(selected[dim]) }

\* C1: the key builder returns exactly prod max(1,|S[d]|) keys, or raises the
\* capacity error; it raises if and only if that product exceeds 5000.
C1_SizeOrCapacity ==
    pc = "returned" =>
        LET p == SizeProduct(dim_ids, SELECTED)
        IN  /\ err <=> (p > 5000)
            /\ ~err => Len(series_keys) = p
            /\ err => series_keys = <<>>

\* a product of exactly 5000 was accepted and 5000 keys came back
C1_Witness ==
    /\ pc = "returned"
    /\ SizeProduct(dim_ids, SELECTED) = 5000
    /\ ~err
    /\ Len(series_keys) = 5000

\* C2 as stated: for every dimension list, the empty one included, and every
\* selection whose codes hold no dot, every key has exactly |D| dot-separated
\* segments.
C2_SegmentsAnyD ==
    (pc = "returned" /\ ~err /\ NoDotCodes(SELECTED)) =>
        \A k \in 1..Len(series_keys) :
            Len(Segments(series_keys[k])) = Len(dim_ids)

\* C2 amended: for every non-empty dimension list and every selection whose
\* codes hold no dot, every key has exactly |D| dot-separated segments.
C2_SegmentsNonEmptyD ==
    (pc = "returned" /\ ~err /\ NoDotCodes(SELECTED) /\ Len(dim_ids) > 0) =>
        \A k \in 1..Len(series_keys) :
            Len(Segments(series_keys[k])) = Len(dim_ids)

\* three dimensions, one wildcarded and one with two codes, keys returned
C2_Witness ==
    /\ pc = "returned" /\ ~err /\ NoDotCodes(SELECTED)
    /\ Len(dim_ids) = 3
    /\ Len(series_keys) >= 2
    /\ \E i \in 1..3 : Unselected(SELECTED, dim_ids[i])

SegmentsMatch(keys, dims, selected) ==
    \A k \in 1..Len(keys) :
        LET segs == Segments(keys[k])
        IN  \A i \in 1..Len(dims) :
                /\ i <= Len(segs)
                /\ IF Unselected(selected, dims[i])
                   THEN segs[i] = <<>>
                   ELSE segs[i] \in CodesOf(selected, dims[i])

\* C8 as stated: for every accepted D and S, the i-th segment of every key is
\* empty when the i-th dimension is unselected and a code of S[D[i]] otherwise.
C8_SegmentsAnyCodes ==
    (pc = "returned" /\ ~err) => SegmentsMatch(series_keys, dim_ids, SELECTED)

\* C8 amended: the same for every accepted D and every S whose codes hold no
\* dot; and D = [FREQ, CURRENCY], FREQ = {D}, CURRENCY unselected gives ["D."].
C8_SegmentsNoDot ==
    (pc = "returned" /\ ~err /\ NoDotCodes(SELECTED)) =>
        /\ SegmentsMatch(series_keys, dim_ids, SELECTED)
        /\ ( /\ dim_ids = <<"FREQ", "CURRENCY">>
             /\ ~Unselected(SELECTED, "FREQ") /\ SELECTED["FREQ"] = << <<"D">> >>
             /\ Unselected(SELECTED, "CURRENCY") )
           => series_keys = << <<"D", ".">> >>

\* the example of the claim has been built
C8_Witness ==
    /\ pc = "returned" /\ ~err
    /\ dim_ids = <<"FREQ", "CURRENCY">>
    /\ "FREQ" \in DOMAIN SELECTED /\ SELECTED["FREQ"] = << <<"D">> >>
    /\ Unselected(SELECTED, "CURRENCY")
    /\ series_keys = << <<"D", ".">> >>

----------------------------------------------------------------------------
(* fetch_series_csv, lines 196-213 *)

FLOW == "EXR"

\* an empty CSV cell, read by pandas as a missing value
NULL == ""

\* the timestamp of an unparseable time period (errors="coerce")
NaT == -1

\* the label separator: stands for " — " (space, em dash, space) of line 210
Dash == " -- "

LabelFields ==
    <<"TITLE_COMPL", "TITLE", "UNIT", "CURRENCY", "CURRENCY_DENOM", "EXR_TYPE", "EXR_SUFFIX">>

\* pd.to_datetime(..., errors="coerce"): time periods are the days 1, 2, ...;
\* 0 stands for a text that is no date
to_datetime(p) == IF p >= 1 THEN p ELSE NaT

\* a sorts before b under sort_values("Date"): missing dates go last
DateBefore(a, b) == a # NaT /\ (b = NaT \/ a < b)

RECURSIVE InsertByDate(_, _)
\* the place of row r in an already sorted list (after its equals)
InsertByDate(sorted, r) ==
    IF Len(sorted) = 0 THEN <<r>>
    ELSE IF DateBefore(r.Date, sorted[1].Date) THEN <<r>> \o sorted
    ELSE <<sorted[1]>> \o InsertByDate(Tail(sorted), r)

RECURSIVE SortByDate(_, _)
\* df.sort_values("Date") for a handful of rows: rows with equal dates keep their order
SortByDate(rows, i) ==
    IF i = 0 THEN <<>>
    ELSE InsertByDate(SortByDate(rows, i - 1), rows[i])

\* pd.notna(df[c]).any()
AnyNotNull(rows, c) == \E i \in 1..Len(rows) : rows[i].row[c] # NULL

\* df[c].dropna().iloc[0]
FirstNotNull(rows, c) ==
    rows[CHOOSE i \in 1..Len(rows) :
            /\ rows[i].row[c] # NULL
            /\ \A j \in 1..(i - 1) : rows[j].row[c] = NULL].row[c]

RECURSIVE ComposeLabelAll(_, _, _, _)
\* a label loop without the break: every present field is appended
ComposeLabelAll(label, cols, rows, i) ==
    IF i > Len(LabelFields) THEN label
    ELSE LET c == LabelFields[i]
         IN  IF c \in cols /\ AnyNotNull(rows, c)
             THEN ComposeLabelAll(label \o Dash \o FirstNotNull(rows, c), cols, rows, i + 1)
             ELSE ComposeLabelAll(label, cols, rows, i + 1)

RECURSIVE ComposeLabel(_, _, _, _)
\* the loop of lines 208-211, from the i-th field on
ComposeLabel(label, cols, rows, i) ==
    IF i > Len(LabelFields) THEN label
    ELSE LET c == LabelFields[i]
         IN  IF c \in cols /\ AnyNotNull(rows, c)
             THEN label \o Dash \o FirstNotNull(rows, c)
             ELSE ComposeLabel(label, cols, rows, i + 1)

Raise(msg) == [raised |-> TRUE, error |-> msg, label |-> "", key |-> <<>>, index |-> <<>>]

\* one uncached call on response r: raises, or returns the one-column frame
\* (its label, its Date index; the observed values are not modelled)
fetch_series_csv(flow_id, series_key, r) ==
    IF r.status # 200 THEN Raise("HTTPError")
    ELSE IF "TIME_PERIOD" \notin r.cols \/ "OBS_VALUE" \notin r.cols
    THEN Raise("Unexpected CSV from ECB.")
    ELSE LET dated  == [i \in 1..Len(r.rows) |->
                           [row |-> r.rows[i], Date |-> to_datetime(r.rows[i]["TIME_PERIOD"])]]
             sorted == SortByDate(dated, Len(dated))
             label  == ComposeLabel(flow_id \o ":" \o StrOf(series_key), r.cols, sorted, 1)
         IN  [raised |-> FALSE, error |-> "", label |-> label, key |-> series_key,
              index |-> [i \in 1..Len(sorted) |-> sorted[i].Date]]

----------------------------------------------------------------------------
(* Inputs of fetch_series_csv: two-row responses *)

LabelKey == <<"D", ".", "U", "S", "D">>

FieldSet == { LabelFields[i] : i \in 1..Len(LabelFields) }

\* a metadata column: absent, all null, null then a value, two values
Patterns == {"absent", "nulls", "late", "both"}

CellOf(pattern, c, i) ==
    IF pattern = "both" \/ (pattern = "late" /\ i = 2) THEN c \o Digit(i) ELSE NULL

PeriodChoices == { <<2, 1>>, <<1, 0>>, <<0, 1>> }

CsvResponse(pat, periods) ==
    LET cols == {"TIME_PERIOD", "OBS_VALUE"} \cup { c \in FieldSet : pat[c] # "absent" }
    IN  [status |-> 200,
         cols   |-> cols,
         rows   |-> [i \in 1..2 |->
                       [c \in cols |->
                           IF c = "TIME_PERIOD" THEN periods[i]
                           ELSE IF c = "OBS_VALUE" THEN i
                           ELSE CellOf(pat[c], c, i)]]]

Without(r, c) ==
    [status |-> r.status,
     cols   |-> r.cols \ {c},
     rows   |-> [i \in 1..Len(r.rows) |-> [d \in r.cols \ {c} |-> r.rows[i][d]]]]

LabelResponses ==
    { CsvResponse(pat, periods) : pat \in [FieldSet -> Patterns], periods \in PeriodChoices }
    \cup { Without(CsvResponse([f \in FieldSet |-> "both"], <<1, 2>>), c) :
             c \in {"TIME_PERIOD", "OBS_VALUE"} }
    \cup { [status |-> st, cols |-> {}, rows |-> <<>>] : st \in {404, 500} }

KeysUnused ==
    /\ dim_ids = <<>>
    /\ SELECTED = <<>>
    /\ manual_keys = <<>>
    /\ fetch_now = FALSE
    /\ series_keys = <<>>
    /\ err = FALSE

InitLabel ==
    /\ pc = "call"
    /\ resp \in LabelResponses
    /\ frame_out = NoFrame
    /\ KeysUnused
    /\ AppUnused
    /\ DsdUnused

\* one call of fetch_series_csv on the drawn response
CallFetchSeries ==
    /\ pc = "call"
    /\ frame_out' = fetch_series_csv(FLOW, LabelKey, resp)
    /\ pc' = "returned"
    /\ UNCHANGED <<resp, keyVars, appVars, dsdVars>>

SpecLabel == InitLabel /\ [][CallFetchSeries]_vars

----------------------------------------------------------------------------
(* Properties of the label, checked under SpecLabel *)

\* field c is present with a non-null value in the response
PresentIn(r, c) == c \in r.cols /\ \E i \in 1..Len(r.rows) : r.rows[i][c] # NULL

\* row i comes before row j once the rows are ordered by date
RowBefore(r, i, j) ==
    LET di == to_datetime(r.rows[i]["TIME_PERIOD"])
        dj == to_datetime(r.rows[j]["TIME_PERIOD"])
    IN  DateBefore(di, dj) \/ (~DateBefore(dj, di) /\ i < j)

\* the first non-null value of column c, the rows taken in date order
FirstValue(r, c) ==
    r.rows[CHOOSE i \in 1..Len(r.rows) :
              /\ r.rows[i][c] # NULL
              /\ \A j \in 1..Len(r.rows) :
                    (j # i /\ r.rows[j][c] # NULL) => RowBefore(r, i, j)][c]

ExpectedLabel(r) ==
    LET base == FLOW \o ":" \o StrOf(LabelKey)
    IN  IF \A i \in 1..Len(LabelFields) : ~PresentIn(r, LabelFields[i])
        THEN base
        ELSE LET first == CHOOSE i \in 1..Len(LabelFields) :
                              /\ PresentIn(r, LabelFields[i])
                              /\ \A j \in 1..(i - 1) : ~PresentIn(r, LabelFields[j])
             IN  base \o " -- " \o FirstValue(r, LabelFields[first])

\* C9: the label is "<dataset id>:<key>" followed by the separator and the value
\* of exactly one field, the first of the priority list that is present with a
\* non-null value (its first non-null value, the rows taken in date order), and
\* just "<dataset id>:<key>" when no field is.
C9_LabelFirstField ==
    (pc = "returned" /\ ~frame_out.raised) => frame_out.label = ExpectedLabel(resp)

\* TITLE_COMPL holds only nulls, TITLE and UNIT hold values: the label takes TITLE
C9_Witness ==
    /\ pc = "returned" /\ ~frame_out.raised
    /\ "TITLE_COMPL" \in resp.cols /\ ~PresentIn(resp, "TITLE_COMPL")
    /\ PresentIn(resp, "TITLE") /\ PresentIn(resp, "UNIT")
    /\ resp.rows[1]["TITLE"] = NULL
    /\ frame_out.label = "EXR:D.USD -- TITLE2"

----------------------------------------------------------------------------
(* The series-data endpoint, as the script sees it *)

\* how one request may end: a CSV answer, an HTTP error, a CSV without OBS_VALUE
Outcomes == {"ok", "http_error", "bad_csv"}

\* the time periods the endpoint holds for a key: monthly series are dated day 3,
\* daily ones days 1 and 2; a key with a wildcard after its first segment matches
\* two series, whose rows come one series after the other
PeriodsOf(key) ==
    LET segs == Segments(key)
        base == IF segs[1] = <<"M">> THEN <<3>>
                ELSE IF segs[1] = <<>> THEN <<1, 2, 3>>
                ELSE <<1, 2>>
    IN  IF \E i \in 2..Len(segs) : segs[i] = <<>> THEN base \o base ELSE base

Respond(outcome, key) ==
    LET periods == PeriodsOf(key)
        rows == [i \in 1..Len(periods) |->
                    [KEY |-> StrOf(key), TIME_PERIOD |-> periods[i],
                     OBS_VALUE |-> i, TITLE |-> "rate"]]
    IN  IF outcome = "http_error" THEN [status |-> 500, cols |-> {}, rows |-> <<>>]
        ELSE IF outcome = "bad_csv"
        THEN [status |-> 200, cols |-> {"KEY", "TIME_PERIOD", "TITLE"}, rows |-> rows]
        ELSE [status |-> 200, cols |-> {"KEY", "TIME_PERIOD", "OBS_VALUE", "TITLE"},
              rows |-> rows]

----------------------------------------------------------------------------
(* fetch_many, lines 216-227, and pd.concat(frames, axis=1) *)

Count(idx, v) == Cardinality({ i \in 1..Len(idx) : idx[i] = v })

HasDuplicates(idx) == \E i, j \in 1..Len(idx) : i < j /\ idx[i] = idx[j]

Repeat(v, n) == [i \in 1..n |-> v]

RECURSIVE MaxCount(_, _, _)
MaxCount(fs, v, i) ==
    IF i = 0 THEN 0 ELSE Max(Count(fs[i].index, v), MaxCount(fs, v, i - 1))

RECURSIVE UnionFrom(_, _)
UnionFrom(fs, vals) ==
    IF vals = {} THEN <<>>
    ELSE LET m == CHOOSE v \in vals : \A w \in vals \ {v} : DateBefore(v, w)
         IN  Repeat(m, MaxCount(fs, m, Len(fs))) \o UnionFrom(fs, vals \ {m})

\* the combined index of the frames fs: the sorted union of their Date indexes, a
\* date kept as many times as the frame that repeats it most
UnionIndex(fs) ==
    UnionFrom(fs,
              UNION { { fs[i].index[j] : j \in 1..Len(fs[i].index) } :
                        i \in 1..Len(fs) })

\* pd.concat reindexes every frame whose index differs from the combined one,
\* and reindexing a frame whose index holds a date twice raises InvalidIndexError
ConcatRaises(fs) ==
    \E i \in 1..Len(fs) :
        /\ fs[i].index # UnionIndex(fs)
        /\ HasDuplicates(fs[i].index)

\* the Wide Table: one column per frame, in the order of the frames
Concat(fs) ==
    [cols  |-> [i \in 1..Len(fs) |-> [label |-> fs[i].label, key |-> fs[i].key]],
     index |-> UnionIndex(fs)]

\* st.warning(f"Failed to fetch {flow_id}/{k}: {e}"): the error text is left out
FailedWarning(flow_id, k) == [kind |-> "failed", flow |-> flow_id, key |-> k]

----------------------------------------------------------------------------
(* The script, lines 284-308, as the sessions of one Streamlit process run   *)
(* it.  Each browser session runs the script in a thread of its own, so      *)
(* under Spec every variable of the script is a function of the session;     *)
(* the st.cache_data memos (fsc_cache, fm_cache) belong to the process and   *)
(* are shared by the sessions.  A widget change while a script runs asks for *)
(* a rerun: the running script is stopped at its next st.* call by a control *)
(* exception, which is no Exception and so passes the except clauses of      *)
(* lines 221 and 288, and the script starts again from the top.              *)

\* two browser sessions
Sessions == {1, 2}

MaxRuns == 2

AppDims == <<"FREQ", "CURRENCY">>

\* the number of codes picked in each of two dimensions by the oversized selection
BigPick == 71

\* what the multiselects can hold in a run: one frequency, a full selection, and
\* a selection of 71 x 71 codes; the picks of a multiselect are distinct
AppSelections ==
    { [FREQ |-> << <<"D">> >>, CURRENCY |-> <<>>],
      [FREQ |-> << <<"D">>, <<"M">> >>, CURRENCY |-> << <<"U", "S", "D">> >>],
      [FREQ |-> CodeList(BigPick), CURRENCY |-> CodeList(BigPick)] }

KeyDUSD == <<"D", ".", "U", "S", "D">>

KeyMUSD == <<"M", ".", "U", "S", "D">>

\* what the text input of line 279 can hold, split and stripped (line 280)
ManualChoices == { <<>>, <<KeyMUSD, KeyDUSD, KeyMUSD>> }

\* list(dict.fromkeys(keys)) without the first-wins rule: the last occurrence stays
RECURSIVE DedupeKeepLast(_)
DedupeKeepLast(keys) ==
    IF Len(keys) = 0 THEN <<>>
    ELSE LET rest == Tail(keys)
         IN  IF \E i \in 1..Len(rest) : rest[i] = keys[1]
             THEN DedupeKeepLast(rest)
             ELSE <<keys[1]>> \o DedupeKeepLast(rest)

RECURSIVE Dedupe(_)
\* list(dict.fromkeys(keys)): each key once, at its first occurrence
Dedupe(keys) ==
    IF Len(keys) = 0 THEN <<>>
    ELSE LET front == Dedupe(SubSeq(keys, 1, Len(keys) - 1))
             k     == keys[Len(keys)]
         IN  IF \E i \in 1..Len(front) : front[i] = k THEN front ELSE Append(front, k)

\* a handler that falls back to the all-wildcard key
OnBuildErrorWildcard(dims) == << JoinWith(<<Dot>>, [i \in 1..Len(dims) |-> <<>>]) >>

\* series_keys after the except clause of lines 288-289: still the [] of line 284
OnBuildError(dims) == <<>>

\* a memo whose entries are never found again
MemoExpired(cache, args) == FALSE

\* st.cache_data without ttl or max_entries: an entry stays for the process's life
MemoHit(cache, args) == args \in DOMAIN cache

\* st.cache_data computes a missing value under the lock of its key: a call whose
\* value the thread of another session is computing waits for that thread
LockedByOther(s) ==
    \E t \in Sessions \ {s} : pc[t] = "loop" /\ series_keys[t] = series_keys[s]

\* DataFrame.empty
IsEmpty(table) == Len(table.cols) = 0 \/ Len(table.index) = 0

NoDataWarning == [kind |-> "no_data", flow |-> FLOW, key |-> <<>>]

\* session s's value of a variable of the script becomes v
Set(f, s, v) == [f EXCEPT ![s] = v]

Init ==
    /\ pc = [s \in Sessions |-> "idle"]
    /\ dim_ids = AppDims
    /\ SELECTED = [s \in Sessions |-> [FREQ |-> <<>>, CURRENCY |-> <<>>]]
    /\ manual_keys = [s \in Sessions |-> <<>>]
    /\ fetch_now = [s \in Sessions |-> FALSE]
    /\ series_keys = [s \in Sessions |-> <<>>]
    /\ err = [s \in Sessions |-> FALSE]
    /\ built = [s \in Sessions |-> <<>>]
    /\ WIDE = [s \in Sessions |-> EmptyTable]
    /\ warnings = [s \in Sessions |-> <<>>]
    /\ requests = [s \in Sessions |-> <<>>]
    /\ crashed = [s \in Sessions |-> FALSE]
    /\ last_call = [s \in Sessions |-> "none"]
    /\ failed = [s \in Sessions |-> <<>>]
    /\ key_idx = [s \in Sessions |-> 1]
    /\ frames = [s \in Sessions |-> <<>>]
    /\ rerun_req = [s \in Sessions |-> FALSE]
    /\ fsc_cache = <<>>
    /\ fm_cache = <<>>
    /\ first_result = <<>>
    /\ runs = 0
    /\ LabelUnused
    /\ DsdUnused

\* session s's script starts from the top with the widgets' values (line 284 is
\* reached with the selection, the pasted keys and the button state of the run)
StartRun(s) ==
    /\ SELECTED' \in { Set(SELECTED, s, sel) : sel \in AppSelections }
    /\ manual_keys' \in { Set(manual_keys, s, man) : man \in ManualChoices }
    /\ fetch_now' \in { Set(fetch_now, s, btn) : btn \in BOOLEAN }
    /\ series_keys' = Set(series_keys, s, <<>>)
    /\ err' = Set(err, s, FALSE)
    /\ built' = Set(built, s, <<>>)
    /\ WIDE' = Set(WIDE, s, EmptyTable)
    /\ warnings' = Set(warnings, s, <<>>)
    /\ requests' = Set(requests, s, <<>>)
    /\ crashed' = Set(crashed, s, FALSE)
    /\ last_call' = Set(last_call, s, "none")
    /\ failed' = Set(failed, s, <<>>)
    /\ key_idx' = Set(key_idx, s, 1)
    /\ frames' = Set(frames, s, <<>>)
    /\ rerun_req' = Set(rerun_req, s, FALSE)
    /\ pc' = Set(pc, s, "build")

\* the user changes a widget or presses the button while no script runs
Rerun(s) ==
    /\ pc[s] = "idle"
    /\ runs < MaxRuns
    /\ runs' = runs + 1
    /\ StartRun(s)
    /\ UNCHANGED <<dim_ids, fsc_cache, fm_cache, first_result, lblVars, dsdVars>>

\* the user does so while the script runs: the request waits for the script's
\* next st.* call
RequestRerun(s) ==
    /\ pc[s] # "idle"
    /\ ~rerun_req[s]
    /\ runs < MaxRuns
    /\ runs' = runs + 1
    /\ rerun_req' = Set(rerun_req, s, TRUE)
    /\ UNCHANGED <<pc, keyVars, built, WIDE, warnings, requests, crashed, fsc_cache,
                   fm_cache, first_result, last_call, failed, key_idx, frames,
                   lblVars, dsdVars>>

\* lines 284-289; st.error (line 289) is the st.* call of this step
BuildStep(s) ==
    /\ pc[s] = "build"
    /\ LET r == IF Len(dim_ids) > 0
                THEN build_series_keys_from_selection(dim_ids, SELECTED[s])
                ELSE [raised |-> FALSE, keys |-> <<>>]
       IN  IF r.raised /\ rerun_req[s]
           THEN StartRun(s)
           ELSE /\ err' = Set(err, s, r.raised)
                /\ built' = Set(built, s, r.keys)
                /\ series_keys' = Set(series_keys, s,
                                      IF r.raised THEN OnBuildError(dim_ids) ELSE r.keys)
                /\ pc' = Set(pc, s, "merge")
                /\ UNCHANGED <<SELECTED, manual_keys, fetch_now, WIDE, warnings, requests,
                               crashed, last_call, failed, key_idx, frames, rerun_req>>
    /\ UNCHANGED <<dim_ids, fsc_cache, fm_cache, first_result, runs, lblVars, dsdVars>>

\* lines 291-301; st.button (line 301) is the st.* call of this step
MergeStep(s) ==
    /\ pc[s] = "merge"
    /\ IF rerun_req[s]
       THEN StartRun(s)
       ELSE /\ series_keys' = Set(series_keys, s,
                                  IF Len(manual_keys[s]) > 0
                                  THEN Dedupe(series_keys[s] \o manual_keys[s])
                                  ELSE series_keys[s])
            /\ pc' = Set(pc, s, "fetch")
            /\ UNCHANGED <<SELECTED, manual_keys, fetch_now, err, built, WIDE, warnings,
                           requests, crashed, last_call, failed, key_idx, frames, rerun_req>>
    /\ UNCHANGED <<dim_ids, fsc_cache, fm_cache, first_result, runs, lblVars, dsdVars>>

\* lines 303-305: the script enters st.spinner and calls fetch_many, or, with the
\* button not pressed or no key, goes on to its end (st.info, line 360)
FetchCall(s) ==
    /\ pc[s] = "fetch"
    /\ IF rerun_req[s]
       THEN StartRun(s)
       ELSE /\ pc' = Set(pc, s, IF fetch_now[s] /\ Len(series_keys[s]) > 0
                                THEN "many" ELSE "idle")
            /\ UNCHANGED <<keyVars, built, WIDE, warnings, requests, crashed, last_call,
                           failed, key_idx, frames, rerun_req>>
    /\ UNCHANGED <<dim_ids, fsc_cache, fm_cache, first_result, runs, lblVars, dsdVars>>

\* the memo of fetch_many (line 215) is asked.  A memoized call returns the
\* stored table and replays the st.warning calls recorded with it, and the script
\* goes on (lines 306-308, leaving st.spinner); a call that is not memoized takes
\* the lock of its arguments and enters the function
CallFetchMany(s) ==
    /\ pc[s] = "many"
    /\ IF MemoHit(fm_cache, <<FLOW, series_keys[s]>>)
       THEN LET memo == fm_cache[<<FLOW, series_keys[s]>>]
            IN  IF rerun_req[s]
                THEN StartRun(s)
                ELSE /\ WIDE' = Set(WIDE, s, memo.table)
                     /\ warnings' = Set(warnings, s,
                            memo.warnings
                            \o (IF IsEmpty(memo.table) THEN <<NoDataWarning>> ELSE <<>>))
                     /\ last_call' = Set(last_call, s, "hit")
                     /\ pc' = Set(pc, s, "idle")
                     /\ UNCHANGED <<keyVars, built, requests, crashed, failed, key_idx,
                                    frames, rerun_req>>
       ELSE /\ ~LockedByOther(s)
            /\ pc' = Set(pc, s, "loop")
            /\ UNCHANGED <<keyVars, built, WIDE, warnings, requests, crashed, last_call,
                           failed, key_idx, frames, rerun_req>>
    /\ UNCHANGED <<dim_ids, fsc_cache, fm_cache, first_result, runs, lblVars, dsdVars>>

\* one round of the loop of lines 218-222.  fetch_series_csv is itself memoized
\* (line 195): a memoized frame is returned without a request, a frame returned
\* is memoized at once, a call that raises memoizes nothing; st.warning (line
\* 222) is the st.* call of this step
FetchKey(s) ==
    /\ pc[s] = "loop"
    /\ key_idx[s] <= Len(series_keys[s])
    /\ LET k == series_keys[s][key_idx[s]]
       IN  IF MemoHit(fsc_cache, <<FLOW, k>>)
           THEN /\ frames' = Set(frames, s, Append(frames[s], fsc_cache[<<FLOW, k>>]))
                /\ key_idx' = Set(key_idx, s, key_idx[s] + 1)
                /\ UNCHANGED <<pc, keyVars, built, WIDE, warnings, requests, crashed,
                               last_call, failed, rerun_req, fsc_cache>>
           ELSE \E outcome \in Outcomes :
                   LET f == fetch_series_csv(FLOW, k, Respond(outcome, k))
                   IN  IF f.raised
                       THEN IF rerun_req[s]
                            THEN StartRun(s) /\ UNCHANGED fsc_cache
                            ELSE /\ requests' = Set(requests, s, Append(requests[s], k))
                                 /\ warnings' = Set(warnings, s,
                                        Append(warnings[s], FailedWarning(FLOW, k)))
                                 /\ failed' = Set(failed, s, Append(failed[s], k))
                                 /\ key_idx' = Set(key_idx, s, key_idx[s] + 1)
                                 /\ UNCHANGED <<pc, keyVars, built, WIDE, crashed, last_call,
                                                frames, rerun_req, fsc_cache>>
                       ELSE /\ requests' = Set(requests, s, Append(requests[s], k))
                            /\ frames' = Set(frames, s, Append(frames[s], f))
                            /\ fsc_cache' = (<<FLOW, k>> :> f) @@ fsc_cache
                            /\ key_idx' = Set(key_idx, s, key_idx[s] + 1)
                            /\ UNCHANGED <<pc, keyVars, built, WIDE, warnings, crashed,
                                           last_call, failed, rerun_req>>
    /\ UNCHANGED <<dim_ids, fm_cache, first_result, runs, lblVars, dsdVars>>

\* lines 223-227 and, back in the script, lines 306-308.  A call that returns is
\* memoized with the st.warning calls it made; a call that raises memoizes
\* nothing and ends the run.  Leaving st.spinner is the st.* call of this step
FetchReturn(s) ==
    /\ pc[s] = "loop"
    /\ key_idx[s] > Len(series_keys[s])
    /\ LET fs    == frames[s]
           table == IF Len(fs) = 0 THEN EmptyTable ELSE Concat(fs)
       IN  IF Len(fs) > 0 /\ ConcatRaises(fs)
           THEN /\ IF rerun_req[s]
                   THEN StartRun(s)
                   ELSE /\ crashed' = Set(crashed, s, TRUE)
                        /\ last_call' = Set(last_call, s, "raised")
                        /\ pc' = Set(pc, s, "idle")
                        /\ UNCHANGED <<keyVars, built, WIDE, warnings, requests, failed,
                                       key_idx, frames, rerun_req>>
                /\ UNCHANGED <<fm_cache, first_result>>
           ELSE /\ fm_cache' = (<<FLOW, series_keys[s]>> :>
                                   [table |-> table, warnings |-> warnings[s]])
                                @@ fm_cache
                /\ first_result' = IF series_keys[s] \in DOMAIN first_result
                                   THEN first_result
                                   ELSE first_result @@ (series_keys[s] :> table)
                /\ IF rerun_req[s]
                   THEN StartRun(s)
                   ELSE /\ WIDE' = Set(WIDE, s, table)
                        /\ warnings' = Set(warnings, s,
                               warnings[s]
                               \o (IF IsEmpty(table) THEN <<NoDataWarning>> ELSE <<>>))
                        /\ last_call' = Set(last_call, s, "miss")
                        /\ pc' = Set(pc, s, "idle")
                        /\ UNCHANGED <<keyVars, built, requests, crashed, failed, key_idx,
                                       frames, rerun_req>>
    /\ UNCHANGED <<dim_ids, fsc_cache, runs, lblVars, dsdVars>>

Next ==
    \E s \in Sessions :
        \/ Rerun(s)
        \/ RequestRerun(s)
        \/ BuildStep(s)
        \/ MergeStep(s)
        \/ FetchCall(s)
        \/ CallFetchMany(s)
        \/ FetchKey(s)
        \/ FetchReturn(s)

Spec == Init /\ [][Next]_vars

----------------------------------------------------------------------------
(* Properties of the script and of fetch_many, checked under Spec *)

Elems(seq) == { seq[i] : i \in 1..Len(seq) }

FirstIdx(seq, k) ==
    CHOOSE i \in 1..Len(seq) : seq[i] = k /\ \A j \in 1..(i - 1) : seq[j] # k

FailedWarnings(s) == SelectSeq(warnings[s], LAMBDA w : w.kind = "failed")

ColumnKeys(table) == { table.cols[i].key : i \in 1..Len(table.cols) }

\* C3 as stated: when the selection would expand past 5000 keys the capacity
\* error is raised before any key is built, and in the run that follows the
\* error no series-data request is made.
C3_NoRequestAfterError ==
    \A s \in Sessions : err[s] => (built[s] = <<>> /\ requests[s] = <<>>)

\* C3 amended: the capacity error is raised exactly when the expansion exceeds
\* 5000, before any key is built and before any request; in the run that follows
\* it every series-data request is for a pasted manual key (none when no manual
\* key was pasted).
C3_OnlyManualAfterError ==
    \A s \in Sessions :
        /\ pc[s] # "build" => (err[s] <=> SizeProduct(dim_ids, SELECTED[s]) > 5000)
        /\ err[s] => /\ built[s] = <<>>
                     /\ pc[s] = "merge" => (series_keys[s] = <<>> /\ requests[s] = <<>>)
                     /\ Elems(series_keys[s]) \subseteq Elems(manual_keys[s])
                     /\ Elems(requests[s]) \subseteq Elems(manual_keys[s])

\* the capacity error was raised and the run went on to request the manual keys
C3_Witness ==
    \E s \in Sessions :
        /\ err[s] /\ pc[s] = "idle" /\ fetch_now[s]
        /\ SizeProduct(dim_ids, SELECTED[s]) > 5000
        /\ Len(requests[s]) = 2

\* C4: fetch_many over N keys of which K fail never aborts: it emits exactly K
\* warnings, each naming the failing dataset/key pair, and returns a Wide Table
\* of exactly N-K columns (an empty one when K = N).
C4_NeverAborts ==
    \A s \in Sessions :
        (pc[s] = "idle" /\ last_call[s] \in {"miss", "raised"}) =>
            /\ ~crashed[s]
            /\ FailedWarnings(s) =
                   [i \in 1..Len(failed[s]) |-> FailedWarning(FLOW, failed[s][i])]
            /\ Len(WIDE[s].cols) = Len(series_keys[s]) - Len(failed[s])
            /\ Len(failed[s]) = Len(series_keys[s]) => WIDE[s] = EmptyTable

\* the part of C4 the code keeps: a call that returns has K warnings and N-K columns
C4_CountsWhenReturned ==
    \A s \in Sessions :
        (pc[s] = "idle" /\ last_call[s] = "miss") =>
            /\ FailedWarnings(s) =
                   [i \in 1..Len(failed[s]) |-> FailedWarning(FLOW, failed[s][i])]
            /\ Len(WIDE[s].cols) = Len(series_keys[s]) - Len(failed[s])
            /\ Len(failed[s]) = Len(series_keys[s]) => WIDE[s] = EmptyTable

\* C5: the columns of the Wide Table follow the input keys (built keys, then
\* manual keys) de-duplicated at first occurrence: no key has two columns, and
\* the column of key i precedes that of key j when i first occurs before j,
\* whichever fetches failed.
C5_ColumnOrder ==
    \A s \in Sessions :
        (pc[s] = "idle" /\ last_call[s] \in {"miss", "hit"}) =>
            LET input == built[s] \o manual_keys[s]
                cols  == WIDE[s].cols
            IN  /\ \A i \in 1..Len(cols) :
                      /\ cols[i].key \in Elems(input)
                      /\ cols[i].label = FLOW \o ":" \o StrOf(cols[i].key) \o " -- rate"
                /\ \A i, j \in 1..Len(cols) :
                      i < j => /\ cols[i].key # cols[j].key
                               /\ FirstIdx(input, cols[i].key) < FirstIdx(input, cols[j].key)

\* built and manual keys overlap, one fetch failed, two columns came back
C5_Witness ==
    \E s \in Sessions :
        /\ pc[s] = "idle" /\ last_call[s] = "miss"
        /\ Len(built[s]) >= 1 /\ Len(manual_keys[s]) = 3
        /\ Len(series_keys[s]) = 3
        /\ Len(failed[s]) = 1
        /\ Len(WIDE[s].cols) = 2

\* C10: once a fetch_many call has returned, every later call of any session
\* with the same dataset and key list returns the same Wide Table without a
\* request (the function is not entered): a key that failed in the first call
\* is not retried, whatever the service would answer now (every request of the
\* model may succeed).
C10_Memoized ==
    [][\A s \in Sessions :
          (/\ pc[s] = "many"
           /\ series_keys[s] \in DOMAIN first_result
           /\ pc'[s] # "many")
          => (/\ pc'[s] \in {"idle", "build"}
              /\ requests'[s] = <<>>
              /\ pc'[s] = "idle" => (/\ last_call'[s] = "hit"
                                     /\ WIDE'[s] = first_result[series_keys[s]]
                                     /\ ~crashed'[s]))]_vars

\* a memoized call returned a table that still omits a key of the list
C10_Witness ==
    \E s \in Sessions :
        /\ pc[s] = "idle" /\ last_call[s] = "hit"
        /\ requests[s] = <<>>
        /\ \E i \in 1..Len(series_keys[s]) : series_keys[s][i] \notin ColumnKeys(WIDE[s])
        /\ Len(WIDE[s].cols) >= 1

----------------------------------------------------------------------------
(* fetch_dsd, lines 93-172.  The structure message is taken as parsed: each   *)
(* Dimension element carries its id and the code list reference of lines      *)
(* 129-144 (has_cl is FALSE when it has none); names are not modelled.        *)

\* how a structure request may end: found, not found, a server error
Statuses == {200, 404, 500}

Present(x) == x # None

\* the paths of lines 101-104 with the least specific one tried first
PathsLeastFirst(a, id, v) ==
    (IF Present(id) THEN <<id>> ELSE <<>>)
    \o (IF Present(a) /\ Present(id) THEN <<a \o "/" \o id>> ELSE <<>>)
    \o (IF Present(a) /\ Present(id) /\ Present(v) THEN <<a \o "/" \o id \o "/" \o v>> ELSE <<>>)

\* lines 101-104 (and 149-152): the lookup paths of a reference, in trial order
Paths(a, id, v) ==
    (IF Present(a) /\ Present(id) /\ Present(v) THEN <<a \o "/" \o id \o "/" \o v>> ELSE <<>>)
    \o (IF Present(a) /\ Present(id) THEN <<a \o "/" \o id>> ELSE <<>>)
    \o (IF Present(id) THEN <<id>> ELSE <<>>)

\* how the dataflow request of get_dsd_ref (line 70) may end: an answer that
\* parses, an answer that is no XML, not found, a server error
RefAnswers == {"ok", "unparsable", "not_found", "server_error"}

\* what get_dsd_ref can return: any part may be missing
Refs == { <<a, id, v>> : a \in {None, "ECB"}, id \in {None, "ECB_EXR1"}, v \in {None, "1.0"} }

\* the cl_tuple of a dimension without an enumeration (line 131)
NoCl == <<None, None, None>>

\* the Dimension elements a structure message can hold
Structures ==
    { <<>>,
      << [id |-> "FREQ", has_cl |-> TRUE, cl |-> <<"ECB", "CL_FREQ", "1.0">>],
         [id |-> "TIME_PERIOD", has_cl |-> FALSE, cl |-> NoCl],
         [id |-> "CURRENCY", has_cl |-> TRUE, cl |-> <<"ECB", "CL_CURRENCY", None>>] >>,
      << [id |-> "FREQ", has_cl |-> FALSE, cl |-> NoCl],
         [id |-> None, has_cl |-> FALSE, cl |-> NoCl],
         [id |-> "time_period", has_cl |-> FALSE, cl |-> NoCl],
         [id |-> "CURRENCY", has_cl |-> TRUE, cl |-> <<None, "CL_CURRENCY", None>>] >> }

\* the Code elements a code list message can hold
CodeRows == { <<>>, << [code |-> "D", name |-> "Daily"], [code |-> "M", name |-> "Monthly"] >> }

\* str.upper() on the ids of the model: one of them is written in lower case
Upper(id) == IF id = "time_period" THEN "TIME_PERIOD" ELSE id

InitDsd ==
    /\ pc = "dsd_call"
    /\ KeysUnused
    /\ AppUnused
    /\ LabelUnused
    /\ DsdUnused

\* lines 100-106.  get_dsd_ref (lines 68-90) sends a request of its own and
\* calls raise_for_status (line 71) and ET.fromstring (line 72) outside any try:
\* every answer but a parsable one raises, and the exception leaves fetch_dsd
\* before a candidate exists
ResolveRef ==
    /\ pc = "dsd_call"
    /\ \E ans \in RefAnswers :
          IF ans # "ok"
          THEN /\ pc' = "dsd_raised"
               /\ raised_in' = "get_dsd_ref"
               /\ UNCHANGED <<dsd_ref, candidates>>
          ELSE /\ \E ref \in Refs :
                     /\ dsd_ref' = ref
                     /\ candidates' = Paths(ref[1], ref[2], ref[3])
               /\ pc' = "dsd_fetch"
               /\ UNCHANGED raised_in
    /\ cand_idx' = 1
    /\ UNCHANGED <<dsd_log, root, dim_idx, cl_paths, cl_idx, cl_log, dsd_dims>>
    /\ UNCHANGED <<keyVars, appVars, lblVars>>

\* one round of the loop of lines 107-112
TryCandidate ==
    /\ pc = "dsd_fetch"
    /\ cand_idx <= Len(candidates)
    /\ \E st \in Statuses :
          /\ dsd_log' = Append(dsd_log, [path |-> candidates[cand_idx], status |-> st])
          /\ IF st = 404
             THEN /\ cand_idx' = cand_idx + 1
                  /\ UNCHANGED <<pc, root, raised_in>>
             ELSE IF st # 200
             THEN /\ pc' = "dsd_raised"
                  /\ raised_in' = "structure"
                  /\ UNCHANGED <<cand_idx, root>>
             ELSE /\ \E ds \in Structures : root' = [found |-> TRUE, dimensions |-> ds]
                  /\ pc' = "dsd_dims"
                  /\ UNCHANGED <<cand_idx, raised_in>>
    /\ UNCHANGED <<dsd_ref, candidates, dim_idx, cl_paths, cl_idx, cl_log, dsd_dims>>
    /\ UNCHANGED <<keyVars, appVars, lblVars>>

\* lines 113-114: the loop ended without a structure
ReturnEmpty ==
    /\ pc = "dsd_fetch"
    /\ cand_idx > Len(candidates)
    /\ pc' = "dsd_done"
    /\ UNCHANGED <<dsdVars, keyVars, appVars, lblVars>>

\* the head of the loop of line 116, up to line 152, and line 172 at its end
NextDimension ==
    /\ pc = "dsd_dims"
    /\ IF dim_idx > Len(root.dimensions)
       THEN /\ pc' = "dsd_done"
            /\ UNCHANGED <<dim_idx, cl_paths, cl_idx, dsd_dims>>
       ELSE LET dim == root.dimensions[dim_idx]
            IN  IF ~Present(dim.id) \/ Upper(dim.id) = "TIME_PERIOD"
                THEN /\ dim_idx' = dim_idx + 1
                     /\ UNCHANGED <<pc, cl_paths, cl_idx, dsd_dims>>
                ELSE IF ~dim.has_cl
                THEN /\ dsd_dims' = Append(dsd_dims, [id |-> dim.id, codes |-> <<>>])
                     /\ dim_idx' = dim_idx + 1
                     /\ UNCHANGED <<pc, cl_paths, cl_idx>>
                ELSE /\ cl_paths' = Paths(dim.cl[1], dim.cl[2], dim.cl[3])
                     /\ cl_idx' = 1
                     /\ pc' = "dsd_codes"
                     /\ UNCHANGED <<dim_idx, dsd_dims>>
    /\ UNCHANGED <<dsd_ref, candidates, cand_idx, dsd_log, root, cl_log, raised_in>>
    /\ UNCHANGED <<keyVars, appVars, lblVars>>

\* one round of the loop of lines 153-170, and line 171 at its end
TryCodelist ==
    /\ pc = "dsd_codes"
    /\ LET dim == root.dimensions[dim_idx]
       IN  IF cl_idx > Len(cl_paths)
           THEN /\ dsd_dims' = Append(dsd_dims, [id |-> dim.id, codes |-> <<>>])
                /\ dim_idx' = dim_idx + 1
                /\ pc' = "dsd_dims"
                /\ UNCHANGED <<cl_idx, cl_log, raised_in>>
           ELSE \E st \in Statuses :
                   /\ cl_log' = Append(cl_log, [dim |-> dim.id, path |-> cl_paths[cl_idx],
                                                status |-> st])
                   /\ IF st = 404
                      THEN /\ cl_idx' = cl_idx + 1
                           /\ UNCHANGED <<pc, dim_idx, dsd_dims, raised_in>>
                      ELSE IF st # 200
                      THEN /\ pc' = "dsd_raised"
                           /\ raised_in' = "codelist"
                           /\ UNCHANGED <<cl_idx, dim_idx, dsd_dims>>
                      ELSE /\ \E rows \in CodeRows :
                                 dsd_dims' = Append(dsd_dims, [id |-> dim.id, codes |-> rows])
                           /\ dim_idx' = dim_idx + 1
                           /\ pc' = "dsd_dims"
                           /\ UNCHANGED <<cl_idx, raised_in>>
    /\ UNCHANGED <<dsd_ref, candidates, cand_idx, dsd_log, root, cl_paths>>
    /\ UNCHANGED <<keyVars, appVars, lblVars>>

NextDsd == ResolveRef \/ TryCandidate \/ ReturnEmpty \/ NextDimension \/ TryCodelist

SpecDsd == InitDsd /\ [][NextDsd]_vars

----------------------------------------------------------------------------
(* Properties of fetch_dsd, checked under SpecDsd *)

\* the lookup paths the reference allows, most specific first
ExpectedOrder(ref) ==
    LET a  == ref[1]
        id == ref[2]
        v  == ref[3]
        want == << [ok |-> a # None /\ id # None /\ v # None, path |-> a \o "/" \o id \o "/" \o v],
                   [ok |-> a # None /\ id # None, path |-> a \o "/" \o id],
                   [ok |-> id # None, path |-> id] >>
        kept == SelectSeq(want, LAMBDA w : w.ok)
    IN  [i \in 1..Len(kept) |-> kept[i].path]

\* C7: the structure paths are tried in the order agency/id/version, agency/id,
\* id (paths with a missing part skipped); a not-found leads to the next
\* candidate, the first success is accepted and nothing is requested after it,
\* and the empty dimension list is returned only once every candidate was tried.
C7_CandidateOrder ==
    pc # "dsd_call" =>
        LET exp == ExpectedOrder(dsd_ref)
            n   == Len(dsd_log)
        IN  /\ n <= Len(exp)
            /\ \A i \in 1..n : dsd_log[i].path = exp[i]
            /\ \A i \in 1..(n - 1) : dsd_log[i].status = 404
            /\ root.found <=> (n > 0 /\ dsd_log[n].status = 200)
            /\ (n > 0 /\ dsd_log[n].status = 404 /\ n < Len(exp))
                   => (pc = "dsd_fetch" /\ candidates[cand_idx] = exp[n + 1])
            /\ (pc = "dsd_done" /\ ~root.found)
                   => (/\ n = Len(exp)
                       /\ \A i \in 1..n : dsd_log[i].status = 404
                       /\ dsd_dims = <<>>)

\* the first path was not found, the second was accepted, the third never asked
C7_Witness ==
    /\ pc = "dsd_done"
    /\ root.found
    /\ Len(ExpectedOrder(dsd_ref)) = 3
    /\ Len(dsd_log) = 2
    /\ dsd_log[1].status = 404 /\ dsd_log[2].status = 200
    /\ dsd_log[2].path = "ECB/ECB_EXR1"

\* the dimensions of the accepted structure that fetch_dsd keeps
Kept(ds) == SelectSeq(ds, LAMBDA d : d.id \notin {None, "TIME_PERIOD", "time_period"})

Resolved(id) == \E i \in 1..Len(cl_log) : cl_log[i].dim = id /\ cl_log[i].status = 200

\* C6: a failure to resolve one dimension's code list (every path not found, or
\* any other lookup failure) gives that dimension an empty codes set and never
\* aborts schema resolution: the dimension list still holds every dimension.
C6_CodelistFailureTolerated ==
    /\ raised_in # "codelist"
    /\ (pc = "dsd_done" /\ root.found) =>
          LET kept == Kept(root.dimensions)
          IN  /\ Len(dsd_dims) = Len(kept)
              /\ \A i \in 1..Len(kept) :
                    /\ dsd_dims[i].id = kept[i].id
                    /\ ~Resolved(kept[i].id) => dsd_dims[i].codes = <<>>

\* the part of C6 the code keeps: code lists that are only not found are tolerated
C6_NotFoundTolerated ==
    (pc = "dsd_done" /\ root.found) =>
        LET kept == Kept(root.dimensions)
        IN  /\ Len(dsd_dims) = Len(kept)
            /\ \A i \in 1..Len(kept) :
                  /\ dsd_dims[i].id = kept[i].id
                  /\ ~Resolved(kept[i].id) => dsd_dims[i].codes = <<>>

====
